---- MODULE Spec2Model ----
(***************************************************************************)
(* Model of the SNMP agent value registry of snmp-go (package lzsnmp,      *)
(* agent.go): the two collections handlers / staticVals, the reader/writer *)
(* lock a.mu, the transport reference a.server with its binding list       *)
(* SubAgents[0].OIDs, and the GET callbacks the transport invokes.         *)
(*                                                                         *)
(* NewAgent builds the agent from cfg.PEN.  Client threads then call        *)
(* RegisterAbsolute, RegisterStaticAbsolute, UnregisterAbsolute (directly, *)
(* or through Register, RegisterStatic, Unregister with a fragment under   *)
(* the prefix), ListOIDs and Start; every call is split at the             *)
(* points where a.mu is taken or released and where shared fields are      *)
(* read or written.  Transport workers deliver GETs once ListenUDP has     *)
(* succeeded.  sync.RWMutex is modelled as Go implements it: it is not     *)
(* reentrant, and a writer that has taken the inner mutex blocks new       *)
(* readers until it has released the lock.                                 *)
(*                                                                         *)
(* The part of a call that precedes a.mu.Lock() / a.mu.RLock() touches no  *)
(* shared state and is taken together with the acquisition.  The binding   *)
(* list is kept as the set of its items: its order is that of Go's map     *)
(* iteration and no operation modelled here reads it.                      *)
(*                                                                         *)
(* Environment: Start is called on an agent whose server field is still    *)
(* nil (one Start per agent); Stop is not modelled.  Until NewAgent has    *)
(* returned an agent the fields of the Agent do not exist: the variables   *)
(* that stand for them keep their initial values and no method can run.    *)
(***************************************************************************)
EXTENDS Integers, Sequences, FiniteSets, TLC

\* ------------------------------------------------------------------ bounds
\* Largest number of invocations explored per producer.
MaxCount == 1

\* ------------------------------------------------------------- input sets
OIDs == {"1.3.6.1.4.1.12345.1.1.0", "1.3.6.1.2.1.1.1.0"}
Values == {"My SNMP Agent v1.0", "Example Device"}
Producers == {"counter", "uptime"}
\* cfg.PEN: unset (zero) or the example's enterprise number.
PENs == {0, 12345}
\* Relative OID fragments passed to Register / RegisterStatic / Unregister.
Rels == {"1.1.0"}
Threads == {"t1", "t2"}
Workers == {"w1"}

None == "none"

\* gosnmp.OctetString, the only tag registerHandlers ever hands to the transport.
OctetString == "OctetString"

\* The oidType the example passes with each handler and with its static values.
TagOf(arg) ==
    CASE arg = "counter" -> "Counter32"
      [] arg = "uptime" -> "Integer"
      [] OTHER -> OctetString

VARIABLES
    handlers,      \* a.handlers: OID -> producer, None when absent
    staticVals,    \* a.staticVals: OID -> value, None when absent
    server,        \* a.server # nil
    bound,         \* a.server.SubAgents[0].OIDs, as the set of its PDU items
    listening,     \* ListenUDP succeeded and ServeForever is running
    wholder,       \* a.mu: the writer holding (or waiting with) the inner mutex
    readers,       \* a.mu: the threads holding the lock in read mode
    pc,            \* position of each client thread
    op,            \* the call each client thread is executing
    deletedHandler,\* UnregisterAbsolute's local
    deletedStatic, \* UnregisterAbsolute's local
    ret,           \* the value the call is about to return
    listRes,       \* the map ListOIDs has built
    gpc,           \* position of each transport worker
    got,           \* the GET a worker is serving, and its outcome
    counter,       \* state of each producer (the example's counter closure)
    lastReg,       \* history: the last call on each OID that returned nil:
                   \* <<"static", v>>, <<"dynamic", p>> or <<"unregistered">>
    agent,         \* what NewAgent returned: "none" (not called), "ok", "failed"
    pen,           \* cfg.PEN as passed to NewAgent (a.config.PEN)
    oidPrefix,     \* a.oidPrefix
    typeOf         \* history: the oidType passed with the current entry of
                   \* each <<variant, OID>>

vars == <<handlers, staticVals, server, bound, listening, wholder, readers,
          pc, op, deletedHandler, deletedStatic, ret, listRes, gpc, got,
          counter, lastReg, agent, pen, oidPrefix, typeOf>>

regVars == <<handlers, staticVals>>
srvVars == <<server, bound, listening>>
lockVars == <<wholder, readers>>
locVars == <<deletedHandler, deletedStatic, ret, listRes>>
getVars == <<gpc, got, counter>>
cfgVars == <<agent, pen, oidPrefix>>

\* A thread that executes no call.  kind/oid/tag/arg are the call and its
\* parameters, late whether the call began after Start had returned an error.
NoOp == [kind |-> None, oid |-> None, tag |-> None, arg |-> None,
         late |-> FALSE]
\* A worker that serves no GET.  out is the outcome ("unknown", "value",
\* "error"), val/n the value returned (a static value, or the n-th output of
\* producer val), src/cap the binding served, calls the producer invocations
\* made; snap, inDyn and inStatic record what the registry held for the OID
\* when the GET was looked up, and quiet whether no register/unregister call
\* was able to run at that moment.
NoGet == [oid |-> None, out |-> None, val |-> None, n |-> 0, src |-> None,
          cap |-> None, calls |-> 0, snap |-> <<None>>, inDyn |-> None,
          inStatic |-> None, quiet |-> FALSE]

\* ---------------------------------------------------------------- helpers
\* OIDs with an entry in a.handlers / a.staticVals.
DynOIDs == {o \in OIDs : handlers[o] # None}
StaticOIDs == {o \in OIDs : staticVals[o] # None}
Registered == DynOIDs \cup StaticOIDs

\* The PDUValueControlItem built for a dynamic entry (agent.go 245-258).
DynItem(o) ==
    [OID |-> o, Type |-> OctetString, src |-> "dynamic", cap |-> handlers[o]]

\* The PDUValueControlItem built for a static entry (agent.go 268-275).
StaticItem(o) ==
    [OID |-> o, Type |-> OctetString, src |-> "static", cap |-> staticVals[o]]

\* The binding list registerHandlers builds: one item per dynamic entry and
\* one item per static entry (an OID held by both maps gets two items).
Rebuilt == {DynItem(o) : o \in DynOIDs} \cup {StaticItem(o) : o \in StaticOIDs}

\* The set of OIDs in the binding list.
BoundOIDs == {it.OID : it \in bound}

\* The items of the binding list that carry OID o.  The list is never
\* de-duplicated: when it holds a dynamic and a static item for o, a GET of o
\* is served by one of them, and which one is the transport's choice.
ItemsFor(o) == {it \in bound : it.OID = o}

\* The map ListOIDs returns: dynamic tags first, overwritten by static tags.
ListOIDsResult ==
    [o \in Registered |-> IF staticVals[o] # None THEN "static" ELSE "dynamic"]

\* Before NewAgent: no Agent exists.  The variables of its fields hold the
\* values NewAgent would give them and stay untouched until it succeeds.
Init ==
    /\ handlers = [o \in OIDs |-> None]
    /\ staticVals = [o \in OIDs |-> None]
    /\ server = FALSE
    /\ bound = {}
    /\ listening = FALSE
    /\ wholder = None
    /\ readers = {}
    /\ pc = [t \in Threads |-> "idle"]
    /\ op = [t \in Threads |-> NoOp]
    /\ deletedHandler = [t \in Threads |-> FALSE]
    /\ deletedStatic = [t \in Threads |-> FALSE]
    /\ ret = [t \in Threads |-> None]
    /\ listRes = [t \in Threads |-> <<>>]
    /\ gpc = [w \in Workers |-> "idle"]
    /\ got = [w \in Workers |-> NoGet]
    /\ counter = [p \in Producers |-> 0]
    /\ lastReg = [o \in OIDs |-> <<None>>]
    /\ agent = "none"
    /\ pen = 0
    /\ oidPrefix = None
    /\ typeOf = [k \in {"dynamic", "static"} \X OIDs |-> None]

\* ------------------------------------------------------------------ NewAgent
\* fmt.Sprintf("1.3.6.1.4.1.%d", cfg.PEN)
Prefix(p) == "1.3.6.1.4.1." \o ToString(p)

\* The absolute OID as it would be without the separating dot.
ToAbsoluteNoDot(prefix, r) == prefix \o r

\* fmt.Sprintf("%s.%s", a.oidPrefix, relativeOID)
ToAbsolute(prefix, r) == prefix \o "." \o r

\* GetPrefix()
GetPrefix == oidPrefix

\* NewAgent as it would be without the check of cfg.PEN.
NewAgentUnchecked(p) ==
    /\ agent = "none"
    /\ agent' = "ok"
    /\ pen' = p
    /\ oidPrefix' = Prefix(p)
    /\ handlers' = [o \in OIDs |-> None]
    /\ staticVals' = [o \in OIDs |-> None]
    /\ server' = FALSE
    /\ UNCHANGED <<bound, listening, lockVars, pc, op, locVars, getVars,
                   lastReg, typeOf>>

\* NewAgent(cfg): a zero PEN is refused and nil is returned; otherwise the
\* Agent is built with its prefix, two empty maps and no server.
NewAgent(p) ==
    /\ agent = "none"
    /\ pen' = p
    /\ IF p = 0
         THEN /\ agent' = "failed"
              /\ UNCHANGED <<oidPrefix, regVars, server>>
         ELSE /\ agent' = "ok"
              /\ oidPrefix' = Prefix(p)
              /\ handlers' = [o \in OIDs |-> None]
              /\ staticVals' = [o \in OIDs |-> None]
              /\ server' = FALSE
    /\ UNCHANGED <<bound, listening, lockVars, pc, op, locVars, getVars,
                   lastReg, typeOf>>

\* Start has returned an error: a.server is set, nothing listens and no Start
\* is in progress.
StartFailed ==
    /\ server
    /\ ~listening
    /\ \A u \in Threads : op[u].kind # "start"

\* ------------------------------------------------------------ sync.RWMutex
\* a.mu.Lock(), first half: the inner mutex is free.  Once a writer has
\* taken it, new readers are held back.
CanLock == wholder = None

\* a.mu.Lock(), second half: the active readers have left.
LockAcquired(t) ==
    /\ pc[t] = "lockwait"
    /\ readers = {}
    /\ pc' = [pc EXCEPT ![t] = "body"]
    /\ UNCHANGED <<regVars, srvVars, lockVars, op, locVars, getVars, lastReg,
                   cfgVars, typeOf>>

\* a.mu.RLock() as it would be if readers did not wait for a writer.
CanRLockAlways(t) == TRUE

\* Whether a.mu.RLock() can return: no writer holds or waits for the lock.
\* The lock is not reentrant: the writer itself is held back like any reader.
CanRLock(t) == wholder = None

\* The deferred a.mu.Unlock() of a mutation, and its return to the caller.
Unlock(t) ==
    /\ pc[t] = "unlock"
    /\ wholder' = None
    /\ lastReg' =
         IF ret[t] # "nil" THEN lastReg
         ELSE [lastReg EXCEPT ![op[t].oid] =
                 CASE op[t].kind = "regdyn" -> <<"dynamic", op[t].arg>>
                   [] op[t].kind = "regstatic" -> <<"static", op[t].arg>>
                   [] OTHER -> <<"unregistered">>]
    /\ pc' = [pc EXCEPT ![t] = "idle"]
    /\ op' = [op EXCEPT ![t] = NoOp]
    /\ ret' = [ret EXCEPT ![t] = None]
    /\ deletedHandler' = [deletedHandler EXCEPT ![t] = FALSE]
    /\ deletedStatic' = [deletedStatic EXCEPT ![t] = FALSE]
    /\ UNCHANGED <<regVars, srvVars, readers, listRes, getVars, cfgVars, typeOf>>

\* --------------------------------------------------------- RegisterAbsolute
\* RegisterAbsolute(oid, oidType, handler)
RegisterAbsoluteCall(t, o, g, p) ==
    /\ agent = "ok"
    /\ pc[t] = "idle"
    /\ CanLock
    /\ wholder' = t
    /\ pc' = [pc EXCEPT ![t] = "lockwait"]
    /\ op' = [op EXCEPT ![t] = [kind |-> "regdyn", oid |-> o, tag |-> g,
                                 arg |-> p, late |-> StartFailed]]
    /\ UNCHANGED <<regVars, srvVars, readers, locVars, getVars, lastReg,
                   cfgVars, typeOf>>

\* Register(relativeOID, oidType, handler)
RegisterCall(t, r, g, p) ==
    RegisterAbsoluteCall(t, ToAbsolute(oidPrefix, r), g, p)

\* a.handlers[oid] = handler
RegisterAbsoluteWrite(t) ==
    /\ pc[t] = "body"
    /\ op[t].kind = "regdyn"
    /\ handlers' = [handlers EXCEPT ![op[t].oid] = op[t].arg]
    /\ pc' = [pc EXCEPT ![t] = "chk"]
    /\ UNCHANGED <<staticVals, srvVars, lockVars, op, locVars, getVars, lastReg,
                   cfgVars>>
    /\ typeOf' = [typeOf EXCEPT ![<<"dynamic", op[t].oid>>] = op[t].tag]

\* ---------------------------------------------------- RegisterStaticAbsolute
\* RegisterStaticAbsolute(oid, oidType, value)
RegisterStaticAbsoluteCall(t, o, g, v) ==
    /\ agent = "ok"
    /\ pc[t] = "idle"
    /\ CanLock
    /\ wholder' = t
    /\ pc' = [pc EXCEPT ![t] = "lockwait"]
    /\ op' = [op EXCEPT ![t] = [kind |-> "regstatic", oid |-> o, tag |-> g,
                                 arg |-> v, late |-> StartFailed]]
    /\ UNCHANGED <<regVars, srvVars, readers, locVars, getVars, lastReg,
                   cfgVars, typeOf>>

\* RegisterStatic(relativeOID, oidType, value)
RegisterStaticCall(t, r, g, v) ==
    RegisterStaticAbsoluteCall(t, ToAbsolute(oidPrefix, r), g, v)

\* RegisterStaticAbsoluteWrite as it would be if the map were rebuilt with the
\* new entry alone.
RegisterStaticAbsoluteWriteAlone(t) ==
    /\ pc[t] = "body"
    /\ op[t].kind = "regstatic"
    /\ staticVals' = [o \in OIDs |-> IF o = op[t].oid THEN op[t].arg ELSE None]
    /\ pc' = [pc EXCEPT ![t] = "chk"]
    /\ typeOf' = [typeOf EXCEPT ![<<"static", op[t].oid>>] = op[t].tag]
    /\ UNCHANGED <<handlers, srvVars, lockVars, op, locVars, getVars, lastReg,
                   cfgVars>>

\* a.staticVals[oid] = value
RegisterStaticAbsoluteWrite(t) ==
    /\ pc[t] = "body"
    /\ op[t].kind = "regstatic"
    /\ staticVals' = [staticVals EXCEPT ![op[t].oid] = op[t].arg]
    /\ pc' = [pc EXCEPT ![t] = "chk"]
    /\ UNCHANGED <<handlers, srvVars, lockVars, op, locVars, getVars, lastReg,
                   cfgVars>>
    /\ typeOf' = [typeOf EXCEPT ![<<"static", op[t].oid>>] = op[t].tag]

\* -------------------------------------------------------- UnregisterAbsolute
\* UnregisterAbsolute(oid)
UnregisterAbsoluteCall(t, o) ==
    /\ agent = "ok"
    /\ pc[t] = "idle"
    /\ CanLock
    /\ wholder' = t
    /\ pc' = [pc EXCEPT ![t] = "lockwait"]
    /\ op' = [op EXCEPT ![t] = [kind |-> "unreg", oid |-> o, tag |-> None,
                                 arg |-> None, late |-> StartFailed]]
    /\ UNCHANGED <<regVars, srvVars, readers, locVars, getVars, lastReg,
                   cfgVars, typeOf>>

\* Unregister(relativeOID)
UnregisterCall(t, r) == UnregisterAbsoluteCall(t, ToAbsolute(oidPrefix, r))

\* if _, exists := a.handlers[oid]; exists { delete; deletedHandler = true }
UnregisterDeleteHandler(t) ==
    /\ pc[t] = "body"
    /\ op[t].kind = "unreg"
    /\ deletedHandler' = [deletedHandler EXCEPT ![t] = handlers[op[t].oid] # None]
    /\ handlers' = [handlers EXCEPT ![op[t].oid] = None]
    /\ pc' = [pc EXCEPT ![t] = "u_static"]
    /\ UNCHANGED <<staticVals, srvVars, lockVars, op, deletedStatic, ret,
                   listRes, getVars, lastReg,
                   cfgVars>>
    /\ typeOf' = [typeOf EXCEPT ![<<"dynamic", op[t].oid>>] = None]

\* if _, exists := a.staticVals[oid]; exists { delete; deletedStatic = true }
UnregisterDeleteStatic(t) ==
    /\ pc[t] = "u_static"
    /\ deletedStatic' = [deletedStatic EXCEPT ![t] = staticVals[op[t].oid] # None]
    /\ staticVals' = [staticVals EXCEPT ![op[t].oid] = None]
    /\ pc' = [pc EXCEPT ![t] = "u_found"]
    /\ UNCHANGED <<handlers, srvVars, lockVars, op, deletedHandler, ret,
                   listRes, getVars, lastReg,
                   cfgVars>>
    /\ typeOf' = [typeOf EXCEPT ![<<"static", op[t].oid>>] = None]

\* if !deletedHandler && !deletedStatic { return "OID not found" }
UnregisterNotFound(t) ==
    /\ pc[t] = "u_found"
    /\ ~deletedHandler[t] /\ ~deletedStatic[t]
    /\ ret' = [ret EXCEPT ![t] = "notfound"]
    /\ pc' = [pc EXCEPT ![t] = "unlock"]
    /\ UNCHANGED <<regVars, srvVars, lockVars, op, deletedHandler,
                   deletedStatic, listRes, getVars, lastReg,
                   cfgVars, typeOf>>

\* otherwise: log "Unregistered OID" and go on to the server check
UnregisterFound(t) ==
    /\ pc[t] = "u_found"
    /\ deletedHandler[t] \/ deletedStatic[t]
    /\ pc' = [pc EXCEPT ![t] = "chk"]
    /\ UNCHANGED <<regVars, srvVars, lockVars, op, locVars, getVars, lastReg,
                   cfgVars, typeOf>>

\* if a.server != nil { a.registerHandlers() }; return nil
\* (the tail shared by the three mutations; the write lock is still held)
ServerCheck(t) ==
    /\ pc[t] = "chk"
    /\ IF server
         THEN /\ pc' = [pc EXCEPT ![t] = "rh_rlock"]
              /\ UNCHANGED ret
         ELSE /\ pc' = [pc EXCEPT ![t] = "unlock"]
              /\ ret' = [ret EXCEPT ![t] = "nil"]
    /\ UNCHANGED <<regVars, srvVars, lockVars, op, deletedHandler,
                   deletedStatic, listRes, getVars, lastReg,
                   cfgVars, typeOf>>

\* ---------------------------------------------------------- registerHandlers
\* a.mu.RLock() at the top of registerHandlers
RegisterHandlersRLock(t) ==
    /\ pc[t] = "rh_rlock"
    /\ CanRLock(t)
    /\ readers' = readers \cup {t}
    /\ pc' = [pc EXCEPT ![t] = "rh_body"]
    /\ UNCHANGED <<regVars, srvVars, wholder, op, locVars, getVars, lastReg,
                   cfgVars, typeOf>>

\* the nil check, then subAgent.OIDs is emptied and refilled from both maps
RegisterHandlersBody(t) ==
    /\ pc[t] = "rh_body"
    /\ bound' = IF ~server THEN bound ELSE Rebuilt
    /\ pc' = [pc EXCEPT ![t] = "rh_runlock"]
    /\ UNCHANGED <<regVars, server, listening, lockVars, op, locVars, getVars,
                   lastReg,
                   cfgVars, typeOf>>

\* the deferred a.mu.RUnlock(), and the return into the caller
RegisterHandlersRUnlock(t) ==
    /\ pc[t] = "rh_runlock"
    /\ readers' = readers \ {t}
    /\ IF op[t].kind = "start"
         THEN /\ pc' = [pc EXCEPT ![t] = "listen"]
              /\ UNCHANGED ret
         ELSE /\ pc' = [pc EXCEPT ![t] = "unlock"]
              /\ ret' = [ret EXCEPT ![t] = "nil"]
    /\ UNCHANGED <<regVars, srvVars, wholder, op, deletedHandler,
                   deletedStatic, listRes, getVars, lastReg,
                   cfgVars, typeOf>>

\* --------------------------------------------------------------------- Start
\* a.server = &master (a fresh sub-agent with no OIDs);
\* a.snmpServer = NewSNMPServer(master); then registerHandlers is called.
\* None of this is done under a.mu.
StartCall(t) ==
    /\ agent = "ok"
    /\ pc[t] = "idle"
    /\ ~server
    /\ server' = TRUE
    /\ bound' = {}
    /\ pc' = [pc EXCEPT ![t] = "rh_rlock"]
    /\ op' = [op EXCEPT ![t] = [NoOp EXCEPT !.kind = "start"]]
    /\ UNCHANGED <<regVars, listening, lockVars, locVars, getVars, lastReg,
                   cfgVars, typeOf>>

\* ListenUDP succeeds: the serve loop is started and Start returns nil.
StartListenOK(t) ==
    /\ pc[t] = "listen"
    /\ listening' = TRUE
    /\ pc' = [pc EXCEPT ![t] = "idle"]
    /\ op' = [op EXCEPT ![t] = NoOp]
    /\ UNCHANGED <<regVars, server, bound, lockVars, locVars, getVars, lastReg,
                   cfgVars, typeOf>>

\* ListenUDP fails: Start returns the error; a.server keeps its value.
StartListenFail(t) ==
    /\ pc[t] = "listen"
    /\ pc' = [pc EXCEPT ![t] = "idle"]
    /\ op' = [op EXCEPT ![t] = NoOp]
    /\ UNCHANGED <<regVars, srvVars, lockVars, locVars, getVars, lastReg,
                   cfgVars, typeOf>>

\* ------------------------------------------------------------------ ListOIDs
ListOIDsCall(t) ==
    /\ agent = "ok"
    /\ pc[t] = "idle"
    /\ CanRLock(t)
    /\ readers' = readers \cup {t}
    /\ pc' = [pc EXCEPT ![t] = "l_body"]
    /\ op' = [op EXCEPT ![t] = [NoOp EXCEPT !.kind = "list"]]
    /\ UNCHANGED <<regVars, srvVars, wholder, locVars, getVars, lastReg,
                   cfgVars, typeOf>>

\* the two loops that fill result
ListOIDsBody(t) ==
    /\ pc[t] = "l_body"
    /\ listRes' = [listRes EXCEPT ![t] = ListOIDsResult]
    /\ pc' = [pc EXCEPT ![t] = "l_runlock"]
    /\ UNCHANGED <<regVars, srvVars, lockVars, op, deletedHandler,
                   deletedStatic, ret, getVars, lastReg,
                   cfgVars, typeOf>>

\* the deferred a.mu.RUnlock(); result is handed to the caller
ListOIDsReturn(t) ==
    /\ pc[t] = "l_runlock"
    /\ readers' = readers \ {t}
    /\ listRes' = [listRes EXCEPT ![t] = <<>>]
    /\ pc' = [pc EXCEPT ![t] = "idle"]
    /\ op' = [op EXCEPT ![t] = NoOp]
    /\ UNCHANGED <<regVars, srvVars, wholder, deletedHandler, deletedStatic,
                   ret, getVars, lastReg,
                   cfgVars, typeOf>>

\* ------------------------------------------------------- GET (the transport)
\* A register/unregister call is executing on thread t.
Mutating(t) == op[t].kind \in {"regdyn", "regstatic", "unreg"}

\* Thread t waits in registerHandlers for the read lock of a.mu while holding
\* its write lock: sync.RWMutex is not reentrant, so t waits for ever.
SelfDeadlocked(t) == pc[t] = "rh_rlock" /\ wholder = t

\* What the registry holds for o at the moment a GET is looked up.
Lookup(o) ==
    [NoGet EXCEPT !.oid = o, !.snap = lastReg[o], !.inDyn = handlers[o],
                  !.inStatic = staticVals[o],
                  !.quiet = \A t \in Threads : Mutating(t) => SelfDeadlocked(t)]

\* The transport finds no item for the OID: "no such object".
GetUnknown(w, o) ==
    /\ gpc[w] = "idle"
    /\ listening
    /\ ItemsFor(o) = {}
    /\ got' = [got EXCEPT ![w] = [Lookup(o) EXCEPT !.out = "unknown"]]
    /\ gpc' = [gpc EXCEPT ![w] = "done"]
    /\ UNCHANGED <<regVars, srvVars, lockVars, pc, op, locVars, counter, lastReg,
                   cfgVars, typeOf>>

\* The OnGet closure of a static item: return valueCopy, nil.
GetStatic(w, o) ==
    /\ gpc[w] = "idle"
    /\ listening
    /\ \E it \in ItemsFor(o) :
         /\ it.src = "static"
         /\ got' = [got EXCEPT ![w] =
                      [Lookup(o) EXCEPT !.out = "value", !.val = it.cap,
                                        !.src = "static", !.cap = it.cap]]
    /\ gpc' = [gpc EXCEPT ![w] = "done"]
    /\ UNCHANGED <<regVars, srvVars, lockVars, pc, op, locVars, counter, lastReg,
                   cfgVars, typeOf>>

\* GetDynamic as it would be if the closure took a.mu.RLock() around the call
\* of the handler.
GetDynamicLocked(w, o) ==
    /\ gpc[w] = "idle"
    /\ listening
    /\ CanRLock(w)
    /\ readers' = readers \cup {w}
    /\ \E it \in ItemsFor(o) :
         /\ it.src = "dynamic"
         /\ counter[it.cap] < MaxCount
         /\ got' = [got EXCEPT ![w] =
                      [Lookup(o) EXCEPT !.src = "dynamic", !.cap = it.cap,
                                        !.calls = 1]]
    /\ gpc' = [gpc EXCEPT ![w] = "producing"]
    /\ UNCHANGED <<regVars, srvVars, wholder, pc, op, locVars, counter, lastReg,
                   cfgVars, typeOf>>

\* The OnGet closure of a dynamic item, up to its call of handlerCopy().
\* No lock is taken.
GetDynamic(w, o) ==
    /\ gpc[w] = "idle"
    /\ listening
    /\ \E it \in ItemsFor(o) :
         /\ it.src = "dynamic"
         /\ counter[it.cap] < MaxCount
         /\ got' = [got EXCEPT ![w] =
                      [Lookup(o) EXCEPT !.src = "dynamic", !.cap = it.cap,
                                        !.calls = 1]]
    /\ gpc' = [gpc EXCEPT ![w] = "producing"]
    /\ UNCHANGED <<regVars, srvVars, lockVars, pc, op, locVars, counter, lastReg,
                   cfgVars, typeOf>>

\* The producer returns a value (the example's counter: counter++; return
\* counter) and the closure returns value, nil.
ProducerReturns(w) ==
    /\ gpc[w] = "producing"
    /\ counter' = [counter EXCEPT ![got[w].cap] = @ + 1]
    /\ got' = [got EXCEPT ![w].out = "value", ![w].val = got[w].cap,
                          ![w].n = counter[got[w].cap] + 1]
    /\ gpc' = [gpc EXCEPT ![w] = "done"]
    /\ UNCHANGED <<regVars, srvVars, lockVars, pc, op, locVars, lastReg,
                   cfgVars, typeOf>>

\* ProducerFails as it would be if the closure dropped the failing item from
\* the binding list.
ProducerFailsUnbinds(w) ==
    /\ gpc[w] = "producing"
    /\ got' = [got EXCEPT ![w].out = "error", ![w].val = got[w].cap]
    /\ gpc' = [gpc EXCEPT ![w] = "done"]
    /\ bound' = {it \in bound : ~(it.OID = got[w].oid /\ it.cap = got[w].cap)}
    /\ UNCHANGED <<regVars, server, listening, lockVars, pc, op, locVars,
                   counter, lastReg, cfgVars, typeOf>>

\* The producer returns an error and the closure returns nil, err.
ProducerFails(w) ==
    /\ gpc[w] = "producing"
    /\ got' = [got EXCEPT ![w].out = "error", ![w].val = got[w].cap]
    /\ gpc' = [gpc EXCEPT ![w] = "done"]
    /\ UNCHANGED <<regVars, srvVars, lockVars, pc, op, locVars, counter, lastReg,
                   cfgVars, typeOf>>

\* The transport sends the response; the worker is free again.
GetRespond(w) ==
    /\ gpc[w] = "done"
    /\ got' = [got EXCEPT ![w] = NoGet]
    /\ gpc' = [gpc EXCEPT ![w] = "idle"]
    /\ UNCHANGED <<regVars, srvVars, lockVars, pc, op, locVars, counter, lastReg,
                   cfgVars, typeOf>>

\* ---------------------------------------------------------------------- Next
Next ==
    \/ \E p \in PENs : NewAgent(p)
    \/ \E t \in Threads, o \in OIDs, p \in Producers :
          RegisterAbsoluteCall(t, o, TagOf(p), p)
    \/ \E t \in Threads, r \in Rels, p \in Producers :
          RegisterCall(t, r, TagOf(p), p)
    \/ \E t \in Threads, o \in OIDs, v \in Values :
          RegisterStaticAbsoluteCall(t, o, TagOf(v), v)
    \/ \E t \in Threads, r \in Rels, v \in Values :
          RegisterStaticCall(t, r, TagOf(v), v)
    \/ \E t \in Threads, o \in OIDs : UnregisterAbsoluteCall(t, o)
    \/ \E t \in Threads, r \in Rels : UnregisterCall(t, r)
    \/ \E t \in Threads : ListOIDsCall(t)
    \/ \E t \in Threads : StartCall(t)
    \/ \E t \in Threads : LockAcquired(t)
    \/ \E t \in Threads : RegisterAbsoluteWrite(t)
    \/ \E t \in Threads : RegisterStaticAbsoluteWrite(t)
    \/ \E t \in Threads : UnregisterDeleteHandler(t)
    \/ \E t \in Threads : UnregisterDeleteStatic(t)
    \/ \E t \in Threads : UnregisterNotFound(t)
    \/ \E t \in Threads : UnregisterFound(t)
    \/ \E t \in Threads : ServerCheck(t)
    \/ \E t \in Threads : RegisterHandlersRLock(t)
    \/ \E t \in Threads : RegisterHandlersBody(t)
    \/ \E t \in Threads : RegisterHandlersRUnlock(t)
    \/ \E t \in Threads : StartListenOK(t)
    \/ \E t \in Threads : StartListenFail(t)
    \/ \E t \in Threads : Unlock(t)
    \/ \E t \in Threads : ListOIDsBody(t)
    \/ \E t \in Threads : ListOIDsReturn(t)
    \/ \E w \in Workers, o \in OIDs : GetUnknown(w, o)
    \/ \E w \in Workers, o \in OIDs : GetStatic(w, o)
    \/ \E w \in Workers, o \in OIDs : GetDynamic(w, o)
    \/ \E w \in Workers : ProducerReturns(w)
    \/ \E w \in Workers : ProducerFails(w)
    \/ \E w \in Workers : GetRespond(w)

Spec == Init /\ [][Next]_vars

\* ==================================================================== claims
\* The number of entries (static, dynamic) the registry holds for o.
NumEntries(o) ==
    (IF handlers[o] # None THEN 1 ELSE 0) + (IF staticVals[o] # None THEN 1 ELSE 0)

\* C1: every absolute OID has at most one entry: no OID is in staticVals and
\* in handlers at the same time.
C1_AtMostOneEntry == \A o \in OIDs : NumEntries(o) <= 1

\* C2: every register/unregister call returns; none blocks for ever on the
\* registry lock.  A call that waits for the read lock while it holds the
\* write lock itself can never return, so no call may ever be in that state.
C2_NoCallBlocksForever == \A t \in Threads : Mutating(t) => ~SelfDeadlocked(t)

\* C3: once the transport is started, whenever no register/unregister call is
\* in progress (none is executing; a call that has applied its change and can
\* never take another step is not progressing either), the OIDs of the binding
\* list are the OIDs registered: what was registered before Start is bound, and
\* every later registration or unregistration is reflected.
C3_BindingMatchesRegistry ==
    (listening /\ \A t \in Threads : Mutating(t) => SelfDeadlocked(t))
        => BoundOIDs = Registered

\* C4: after the same OID has been registered twice (any combination of
\* variants), list() holds exactly one entry for it and reports the variant of
\* the registration that returned last.
C4_ListReportsLastRegistration ==
    \A t \in Threads : pc[t] = "l_runlock" =>
        \A o \in OIDs : lastReg[o][1] \in {"static", "dynamic"} =>
            /\ NumEntries(o) = 1
            /\ o \in DOMAIN listRes[t]
            /\ listRes[t][o] = lastReg[o][1]

\* C5: a GET of an OID whose last returned call is registerStatic(oid, tag, v)
\* returns v with no error.
C5_StaticGetReturnsValue ==
    \A w \in Workers : (gpc[w] = "done" /\ got[w].snap[1] = "static") =>
        /\ got[w].out = "value"
        /\ got[w].val = got[w].snap[2]
        /\ got[w].calls = 0

\* C6: a GET of an OID whose last returned call is registerDynamic(oid, tag, p)
\* invokes p exactly once and returns the result of that invocation (or its
\* error), never a stored value.
C6_DynamicGetInvokesProducerOnce ==
    \A w \in Workers : (gpc[w] = "done" /\ got[w].snap[1] = "dynamic") =>
        /\ got[w].calls = 1
        /\ got[w].cap = got[w].snap[2]
        /\ got[w].out \in {"value", "error"}
        /\ got[w].val = got[w].snap[2]
        /\ got[w].out = "value" => got[w].n = counter[got[w].cap]

\* C7: for an OID with no entry of either variant, a GET (looked up while no
\* register/unregister call is able to run) yields "unknown OID", and
\* unregister fails with not-found exactly when it found nothing to delete,
\* in which case the OID still has no entry.
C7_NoEntryUnknownAndNotFound ==
    /\ \A w \in Workers :
         ( /\ gpc[w] = "done" /\ got[w].quiet
           /\ got[w].inDyn = None /\ got[w].inStatic = None )
            => got[w].out = "unknown"
    /\ \A t \in Threads : (pc[t] = "unlock" /\ op[t].kind = "unreg") =>
         /\ ret[t] = "notfound" <=> (~deletedHandler[t] /\ ~deletedStatic[t])
         /\ NumEntries(op[t].oid) = 0

\* C8: once an unregister of o has removed the entry (it has returned nil, or
\* it has logged "Unregistered OID" and cannot take another step), list() does
\* not contain o and a GET of o looked up from then on yields "unknown OID",
\* before and after the transport is started.
C8_UnregisterRemovesEntry ==
    /\ \A t \in Threads : pc[t] = "l_runlock" =>
         \A o \in OIDs : lastReg[o] = <<"unregistered">> => o \notin DOMAIN listRes[t]
    /\ \A w \in Workers : (gpc[w] = "done" /\ got[w].snap = <<"unregistered">>)
         => got[w].out = "unknown"
    /\ \A t \in Threads, w \in Workers :
         ( /\ SelfDeadlocked(t) /\ op[t].kind = "unreg"
           /\ gpc[w] = "done" /\ got[w].oid = op[t].oid /\ got[w].quiet
           /\ got[w].inDyn = None /\ got[w].inStatic = None )
         => got[w].out = "unknown"

\* C9: under any interleaving, no GET returns a value (or a producer's error)
\* for an OID that is in neither collection, and no GET reports "unknown OID"
\* for an OID that is in one.
C9_GetAgreesWithCollections ==
    \A w \in Workers : gpc[w] = "done" =>
        ((got[w].inDyn = None /\ got[w].inStatic = None) <=> got[w].out = "unknown")

C11_ItemCarriesRegisteredType ==
    \A it \in bound :
        /\ (it.src = "dynamic" /\ handlers[it.OID] = it.cap)
             => it.Type = typeOf[<<"dynamic", it.OID>>]
        /\ (it.src = "static" /\ staticVals[it.OID] = it.cap)
             => it.Type = typeOf[<<"static", it.OID>>]

\* C12: NewAgent with PEN = 0 fails and produces no agent: no prefix, no
\* collections, and no operation ever runs; with a non-zero PEN it succeeds
\* with both collections empty and the transport not started.
C12_NewAgentOutcome ==
    [][ /\ agent # "failed"
        /\ (agent = "none" /\ agent' # "none") =>
              IF pen' = 0
                THEN /\ agent' = "failed"
                     /\ oidPrefix' = None
                     /\ UNCHANGED <<regVars, srvVars, pc, op>>
                ELSE /\ agent' = "ok"
                     /\ oidPrefix' # None
                     /\ DynOIDs' = {} /\ StaticOIDs' = {}
                     /\ ~server' /\ ~listening' /\ bound' = {} ]_vars

\* C12 witness: NewAgent was called with PEN = 0 and returned no agent.
C12_Witness == agent = "failed" /\ pen = 0

\* C13: GetPrefix() is "1.3.6.1.4.1." followed by the PEN when NewAgent
\* returns the agent and never changes afterwards; Register, RegisterStatic and Unregister on a fragment r do
\* exactly what RegisterAbsolute, RegisterStaticAbsolute and
\* UnregisterAbsolute do on GetPrefix() + "." + r, and the absolute entry
\* points work on the OID they are given.  (The entry into any of the six
\* is the step that takes an idle thread to the wait for a.mu.Lock().)
C13_RelativeIsAbsoluteUnderPrefix ==
    [][ /\ (agent = "none" /\ agent' = "ok") =>
              /\ GetPrefix' = "1.3.6.1.4.1." \o ToString(pen')
              /\ pen' = 12345 => GetPrefix' = "1.3.6.1.4.1.12345"
        /\ agent = "ok" =>
              agent' = "ok" /\ pen' = pen /\ GetPrefix' = GetPrefix
        /\ \A t \in Threads : (pc[t] = "idle" /\ pc'[t] = "lockwait") =>
              /\ \A r \in Rels :
                    LET abs == GetPrefix \o "." \o r IN
                    /\ \A p \in Producers :
                          RegisterCall(t, r, TagOf(p), p) =>
                            RegisterAbsoluteCall(t, abs, TagOf(p), p)
                    /\ \A v \in Values :
                          RegisterStaticCall(t, r, TagOf(v), v) =>
                            RegisterStaticAbsoluteCall(t, abs, TagOf(v), v)
                    /\ UnregisterCall(t, r) => UnregisterAbsoluteCall(t, abs)
              /\ \A o \in OIDs :
                    /\ \A p \in Producers :
                          RegisterAbsoluteCall(t, o, TagOf(p), p) => op'[t].oid = o
                    /\ \A v \in Values :
                          RegisterStaticAbsoluteCall(t, o, TagOf(v), v)
                            => op'[t].oid = o
                    /\ UnregisterAbsoluteCall(t, o) => op'[t].oid = o ]_vars

\* C13 witness: an unregistration of the OID made of GetPrefix(), a dot and
\* the fragment "1.1.0" has found and removed an entry and is about to return.
C13_Witness ==
    \E t \in Threads :
        /\ pc[t] = "unlock"
        /\ op[t].kind = "unreg"
        /\ op[t].oid = GetPrefix \o "." \o "1.1.0"
        /\ ret[t] = "nil"
        /\ deletedHandler[t] \/ deletedStatic[t]

InCriticalSection(t) == Mutating(t) /\ pc[t] \notin {"idle", "lockwait"}

\* Thread t is in ListOIDs with the read lock held.
ListReading(t) == pc[t] \in {"l_body", "l_runlock"}

\* C15: no two register/unregister calls are in their critical section
\* together, no ListOIDs reads the collections while a mutation is in its
\* critical section, and what ListOIDs has read is the registry as it is: an
\* unregistration that has deleted from one map and not yet from the other
\* is never seen.
C15_MutationsSerialized ==
    /\ \A t, u \in Threads :
          (InCriticalSection(t) /\ InCriticalSection(u)) => t = u
    /\ \A t, u \in Threads : ~(InCriticalSection(t) /\ ListReading(u))
    /\ \A u \in Threads : pc[u] = "l_runlock" =>
          /\ listRes[u] = ListOIDsResult
          /\ \A t \in Threads : pc[t] # "u_static"

\* C15 witness: an unregistration has deleted the dynamic entry of an OID and
\* not yet its static entry, while the other thread is idle or kept waiting.
C15_Witness ==
    \E t \in Threads :
        /\ pc[t] = "u_static"
        /\ deletedHandler[t]
        /\ staticVals[op[t].oid] # None

\* C16: the map ListOIDs returns has as keys exactly the OIDs that have an
\* entry at the instant of its read, and gives each key "static" if the OID
\* has a static entry and "dynamic" if it has a dynamic entry.
C16_ListTagsEveryEntry ==
    \A u \in Threads : pc[u] = "l_runlock" =>
        /\ DOMAIN listRes[u] = Registered
        /\ \A o \in Registered :
              /\ staticVals[o] # None => listRes[u][o] = "static"
              /\ handlers[o] # None => listRes[u][o] = "dynamic"

\* C17: a GET resolves static first, then dynamic: whenever the binding list
\* has a static item for an OID it has no other item for it, and a producer
\* is invoked for an OID only when the registry held no static entry for it.
C17_StaticBeforeDynamic ==
    /\ \A o \in OIDs :
          (\E it \in ItemsFor(o) : it.src = "static") =>
              \A it \in ItemsFor(o) : it.src = "static"
    /\ \A w \in Workers :
          gpc[w] = "producing" => got[w].inStatic = None

\* C18: a register or unregister call on an OID changes the entry of that OID
\* only: a step of the call leaves the dynamic entry, the static entry and
\* the bound items (hence the answer to a GET) of every other OID as they
\* were, and no entry changes except in a step of a call on its OID.
C18_MutationTouchesOnlyItsOID ==
    [][ /\ \A t \in Threads :
              (pc'[t] # pc[t] /\ Mutating(t)) =>
                 \A o \in OIDs \ {op[t].oid} :
                    /\ handlers'[o] = handlers[o]
                    /\ staticVals'[o] = staticVals[o]
                    /\ bound' = bound \/ ItemsFor(o)' = ItemsFor(o)
        /\ \A o \in OIDs :
              (handlers'[o] # handlers[o] \/ staticVals'[o] # staticVals[o]) =>
                 \E t \in Threads :
                    pc'[t] # pc[t] /\ Mutating(t) /\ op[t].oid = o ]_vars

\* C18 witness: a static registration has written its entry while another
\* OID has an entry.
C18_Witness ==
    \E t \in Threads :
        /\ pc[t] = "chk"
        /\ op[t].kind = "regstatic"
        /\ staticVals[op[t].oid] = op[t].arg
        /\ \E o \in OIDs \ {op[t].oid} : NumEntries(o) > 0

\* C19: the transport reference (a.server) and the binding list are accessed
\* under a.mu only: every write of either is a step of a thread that holds
\* the lock in write mode, and a GET looks the binding list up with the lock
\* held in read mode.
C19_ServerAndBindingUnderLock ==
    [][ /\ (server' # server \/ bound' # bound) =>
              \E t \in Threads :
                 /\ pc'[t] # pc[t]
                 /\ wholder = t
                 /\ pc[t] \notin {"idle", "lockwait"}
        /\ \A w \in Workers :
              (gpc[w] = "idle" /\ gpc'[w] # "idle") => w \in readers' ]_vars

\* C20: after Start has returned an error the agent is not started: a
\* register or unregister call that begins afterwards updates the
\* collections and returns, and does not enter registerHandlers.
C20_FailedStartLeavesNotStarted ==
    \A t \in Threads :
        (Mutating(t) /\ op[t].late) =>
            pc[t] \notin {"rh_rlock", "rh_body", "rh_runlock"}

====
